---- MODULE Spec2Model ----
(***************************************************************************)
(* A model of the Universal-Profile mini-app starter:                      *)
(*   - the profile-name update flow of src/app/page.tsx (handleNameUpdate  *)
(*     and the Update button that starts it);                              *)
(*   - the LSP2 key layout and value encoding conventions documented in    *)
(*     src/app/schemas/schemas.ts.                                         *)
(***************************************************************************)
EXTENDS Integers, Sequences, FiniteSets, TLC

VARIABLES
    \* ---- page.tsx: Home component state and one run of handleNameUpdate
    newName,      \* useState('') : the text of the name input (a sequence of characters)
    isUpdating,   \* useState(false)
    client,       \* useUpProvider().client : TRUE when a wallet client exists
    accounts,     \* useUpProvider().accounts : a sequence of account addresses
    pc,           \* where the current run of handleNameUpdate stands
    runName,      \* newName.trim() as captured by the run (metadata.name)
    runAccount,   \* accounts[0] as captured by the run
    submitted,    \* the setData calls handed to client.writeContract in this run
    toasts,       \* the toast messages shown by this run, in order
    trace,        \* the steps this run has taken, in order
    bgPending,    \* background waitForTransactionReceipt promises not yet settled
    consoleErrors, \* number of console.error lines written by settled background waits
    \* ---- schemas.ts: one use of the value encoding
    cType,        \* the valueType
    cValue,       \* the value handed to encodeValue
    cBytes,       \* the encoded bytes (as written, or as read back)
    cOut,         \* what decodeValue made of cBytes
    cpc,          \* input, encoded, tampered, decoded, decodedTampered
    \* ---- schemas.ts: one use of the key derivation
    kSchema,      \* the schema: its name parts and its keyType
    kParam,       \* the dynamic parameter, if the name has a <type> part
    kIndex,       \* the element index, for an Array schema
    kKey,         \* what deriveKey returned
    kElem,        \* the element key of kIndex
    kpc           \* input, derived, element

hvars == <<newName, isUpdating, client, accounts, pc, runName, runAccount,
           submitted, toasts, trace, bgPending, consoleErrors>>

cvars == <<cType, cValue, cBytes, cOut, cpc>>

kvars == <<kSchema, kParam, kIndex, kKey, kElem, kpc>>

vars == <<hvars, cvars, kvars>>

(***************************************************************************)
(* Bounds of the model.                                                    *)
(***************************************************************************)
MaxNameLen == 2        \* longest text typed into the name input
MaxBackground == 2     \* background receipt waits in flight at once
MaxConsole == 2        \* console.error lines counted

NameChars == {" ", "a"}

RECURSIVE SeqsUpTo(_, _)
SeqsUpTo(S, n) ==
    IF n = 0 THEN {<<>>}
    ELSE LET shorter == SeqsUpTo(S, n - 1)
         IN  shorter \cup {Append(s, x) : s \in {t \in shorter : Len(t) = n - 1}, x \in S}

Names == SeqsUpTo(NameChars, MaxNameLen)

(***************************************************************************)
(* String.prototype.trim on a sequence of characters.                      *)
(***************************************************************************)
RECURSIVE TrimLeft(_)
TrimLeft(s) == IF s # <<>> /\ Head(s) = " " THEN TrimLeft(Tail(s)) ELSE s

RECURSIVE TrimRight(_)
TrimRight(s) ==
    IF s # <<>> /\ s[Len(s)] = " " THEN TrimRight(SubSeq(s, 1, Len(s) - 1)) ELSE s

Trim(s) == TrimRight(TrimLeft(s))

(***************************************************************************)
(* schemas.ts, VALUE TYPE ENCODINGS.                                       *)
(*                                                                         *)
(* A type token is a record [k, n, m]: k the kind, n the width named in    *)
(* the token (bits for uintN, bytes for bytesN), m the member types of a   *)
(* tuple or the element type of an array.                                  *)
(***************************************************************************)
TBool      == [k |-> "bool",    n |-> 0, m |-> <<>>]
TString    == [k |-> "string",  n |-> 0, m |-> <<>>]
TBytes     == [k |-> "bytes",   n |-> 0, m |-> <<>>]
TAddress   == [k |-> "address", n |-> 0, m |-> <<>>]
TUint(n)   == [k |-> "uint",    n |-> n, m |-> <<>>]
TBytesN(n) == [k |-> "bytesN",  n |-> n, m |-> <<>>]
TTuple(ms) == [k |-> "tuple",   n |-> 0, m |-> ms]
TArray(t)  == [k |-> "array",   n |-> 0, m |-> <<t>>]

WordBytes == 32        \* an ABI word
AddressBytes == 20

Front(s) == SubSeq(s, 1, Len(s) - 1)
Take(s, n) == SubSeq(s, 1, IF n < Len(s) THEN n ELSE Len(s))
Drop(s, n) == SubSeq(s, n + 1, Len(s))
TakeLast(s, n) == SubSeq(s, (IF n < Len(s) THEN Len(s) - n ELSE 0) + 1, Len(s))

Zeros(n) == [i \in 1..n |-> 0]

\* "left padded with zeros" / "right padded"
LeftPad(bs, w)  == Zeros(w - Len(bs)) \o bs
RightPad(bs, w) == bs \o Zeros(w - Len(bs))

RECURSIVE Concat(_)
Concat(ss) == IF ss = <<>> THEN <<>> ELSE Head(ss) \o Concat(Tail(ss))

\* The minimal big-endian digits of a number, and back.
RECURSIVE NatDigits(_)
NatDigits(v) == IF v = 0 THEN <<>> ELSE Append(NatDigits(v \div 256), v % 256)

RECURSIVE DigitsToNat(_)
DigitsToNat(bs) ==
    IF bs = <<>> THEN 0 ELSE DigitsToNat(Front(bs)) * 256 + bs[Len(bs)]

\* The number big-endian bytes stand for. The integers here end below 2^31:
\* a number of 2^30 or more reads as 2^30, which is more than any length.
BytesToUint(bs) ==
    LET low  == TakeLast(bs, 4)
        high == Take(bs, Len(bs) - 4)
    IN  IF (\E i \in DOMAIN high : high[i] # 0) \/ (Len(low) = 4 /\ low[1] >= 64)
        THEN 1073741824
        ELSE DigitsToNat(low)

\* uintN: "N/8 bytes, left padded with zeros", 5 as uint32 --> 0x00000005
UintBytes(v, w) == LeftPad(NatDigits(v), w)

\* string: "utf8 hex bytes, no padding"
Utf8Char(c) ==
    IF c < 128 THEN <<c>>
    ELSE IF c < 2048 THEN <<192 + (c \div 64), 128 + (c % 64)>>
    ELSE <<224 + (c \div 4096), 128 + ((c \div 64) % 64), 128 + (c % 64)>>

RECURSIVE Utf8(_)
Utf8(str) == IF str = <<>> THEN <<>> ELSE Utf8Char(Head(str)) \o Utf8(Tail(str))

IsCont(bs, i) == i >= 1 /\ i <= Len(bs) /\ bs[i] >= 128 /\ bs[i] < 192
IsLead2(bs, i) == i >= 1 /\ i <= Len(bs) /\ bs[i] >= 192 /\ bs[i] < 224 /\ IsCont(bs, i + 1)
IsLead3(bs, i) ==
    i >= 1 /\ i <= Len(bs) /\ bs[i] >= 224 /\ bs[i] < 240 /\ IsCont(bs, i + 1) /\ IsCont(bs, i + 2)

\* The bytes back to characters, left to right: a byte that opens no
\* character and continues none reads as U+FFFD.
Utf8Decode(bs) ==
    LET taken(i) == IsCont(bs, i)
                    /\ (IsLead2(bs, i - 1) \/ IsLead3(bs, i - 1) \/ IsLead3(bs, i - 2))
        starts == {i \in DOMAIN bs : ~taken(i)}
        nth(k) == CHOOSE i \in starts : Cardinality({j \in starts : j <= i}) = k
        char(i) == IF bs[i] < 128 THEN bs[i]
                   ELSE IF IsLead2(bs, i) THEN (bs[i] - 192) * 64 + (bs[i + 1] - 128)
                   ELSE IF IsLead3(bs, i)
                        THEN (bs[i] - 224) * 4096 + (bs[i + 1] - 128) * 64 + (bs[i + 2] - 128)
                   ELSE 65533
    IN  [k \in 1..Cardinality(starts) |-> char(nth(k))]

\* address: a 0x string of 40 hex digits, "20 bytes long address"
HexToBytes(hex) == [i \in 1..(Len(hex) \div 2) |-> hex[2 * i - 1] * 16 + hex[2 * i]]

BytesToHex(bs) ==
    [i \in 1..(2 * Len(bs)) |->
        IF i % 2 = 1 THEN bs[(i + 1) \div 2] \div 16 ELSE bs[i \div 2] % 16]

IsDynamic(T) == T.k \in {"string", "bytes", "array"}

RECURSIVE IsFixed(_)
IsFixed(T) ==
    IF T.k = "tuple" THEN \A i \in DOMAIN T.m : IsFixed(T.m[i]) ELSE ~IsDynamic(T)

RECURSIVE Sum(_)
Sum(ns) == IF ns = <<>> THEN 0 ELSE Head(ns) + Sum(Tail(ns))

\* The width column of the encoding table, for a fixed-width type.
RECURSIVE Width(_)
Width(T) ==
    CASE T.k = "bool"    -> 1
      [] T.k = "address" -> AddressBytes
      [] T.k = "uint"    -> T.n \div 8
      [] T.k = "bytesN"  -> T.n
      [] T.k = "tuple"   -> Sum([i \in DOMAIN T.m |-> Width(T.m[i])])
      [] OTHER           -> 0

(***************************************************************************)
(* encodeValue: the table "Encoding Format By Type"; array types "follow   *)
(* standard ABI encoding rules".                                           *)
(***************************************************************************)
\* A string written one byte per character, whatever the character.
EncodeStaticByteChars(T, v) ==
    CASE T.k = "bool"    -> IF v THEN <<1>> ELSE <<0>>
      [] T.k = "string"  -> [i \in DOMAIN v |-> v[i] % 256]
      [] T.k = "bytes"   -> v
      [] T.k = "address" -> HexToBytes(v)
      [] T.k = "uint"    -> UintBytes(v, T.n \div 8)
      [] T.k = "bytesN"  -> RightPad(v, T.n)

\* Numbers and bytesN written without their padding.
EncodeStaticUnpadded(T, v) ==
    CASE T.k = "bool"    -> IF v THEN <<1>> ELSE <<0>>
      [] T.k = "string"  -> Utf8(v)
      [] T.k = "bytes"   -> v
      [] T.k = "address" -> HexToBytes(v)
      [] T.k = "uint"    -> NatDigits(v)
      [] T.k = "bytesN"  -> v

EncodeStatic(T, v) ==
    CASE T.k = "bool"    -> IF v THEN <<1>> ELSE <<0>>
      [] T.k = "string"  -> Utf8(v)
      [] T.k = "bytes"   -> v
      [] T.k = "address" -> HexToBytes(v)
      [] T.k = "uint"    -> UintBytes(v, T.n \div 8)
      [] T.k = "bytesN"  -> RightPad(v, T.n)

\* ABI: one head word of a static array element.
AbiWord(E, v) ==
    IF E.k = "bytesN" THEN RightPad(EncodeStatic(E, v), WordBytes)
    ELSE LeftPad(EncodeStatic(E, v), WordBytes)

CeilWord(n) == ((n + WordBytes - 1) \div WordBytes) * WordBytes

\* ABI: the tail of a bytes or string array element.
AbiTail(E, v) ==
    LET data == EncodeStatic(E, v)
    IN  UintBytes(Len(data), WordBytes) \o RightPad(data, CeilWord(Len(data)))

RECURSIVE AbiOffsets(_, _)
AbiOffsets(tails, at) ==
    IF tails = <<>> THEN <<>>
    ELSE UintBytes(at, WordBytes) \o AbiOffsets(Tail(tails), at + Len(Head(tails)))

EncodeArray(T, vs) ==
    LET E == T.m[1] IN
    IF IsDynamic(E)
    THEN LET tails == [i \in DOMAIN vs |-> AbiTail(E, vs[i])]
         IN  UintBytes(Len(vs), WordBytes)
             \o AbiOffsets(tails, WordBytes * Len(vs)) \o Concat(tails)
    ELSE UintBytes(Len(vs), WordBytes) \o Concat([i \in DOMAIN vs |-> AbiWord(E, vs[i])])

EncodeTuple(T, v) == Concat([i \in DOMAIN T.m |-> EncodeStatic(T.m[i], v[i])])

EncodeValue(T, v) ==
    CASE T.k = "tuple" -> EncodeTuple(T, v)
      [] T.k = "array" -> EncodeArray(T, v)
      [] OTHER         -> EncodeStatic(T, v)

(***************************************************************************)
(* decodeValue: the inverse, splitting by the fixed widths.                *)
(***************************************************************************)
Ok(v) == [ok |-> TRUE, val |-> v, err |-> "none"]
Malformed == [ok |-> FALSE, val |-> <<>>, err |-> "MalformedValue"]

\* A decoder that pads or cuts the input to the width instead of refusing it.
DecodeStaticLenient(T, bs) ==
    CASE T.k = "string" -> Ok(Utf8Decode(bs))
      [] T.k = "bytes"  -> Ok(bs)
      [] OTHER ->
           LET fit == Take(RightPad(bs, Width(T)), Width(T)) IN
           CASE T.k = "bool"    -> Ok(fit[1] # 0)
             [] T.k = "address" -> Ok(BytesToHex(fit))
             [] T.k = "uint"    -> Ok(BytesToUint(fit))
             [] T.k = "bytesN"  -> Ok(fit)

DecodeStatic(T, bs) ==
    CASE T.k = "string" -> Ok(Utf8Decode(bs))
      [] T.k = "bytes"  -> Ok(bs)
      [] OTHER ->
           IF Len(bs) # Width(T) THEN Malformed
           ELSE CASE T.k = "bool"    -> Ok(bs[1] # 0)
                  [] T.k = "address" -> Ok(BytesToHex(bs))
                  [] T.k = "uint"    -> Ok(BytesToUint(bs))
                  [] T.k = "bytesN"  -> Ok(bs)

\* Members left to right: a fixed-width member takes its width, bytes and
\* string take all the bytes that remain.
RECURSIVE DecodeMembers(_, _)
DecodeMembers(ms, bs) ==
    IF ms = <<>> THEN (IF bs = <<>> THEN Ok(<<>>) ELSE Malformed)
    ELSE LET M == Head(ms)
             w == IF IsDynamic(M) THEN Len(bs) ELSE Width(M)
         IN  IF w > Len(bs) THEN Malformed
             ELSE LET first == DecodeStatic(M, Take(bs, w))
                      rest  == DecodeMembers(Tail(ms), Drop(bs, w))
                  IN  IF first.ok /\ rest.ok THEN Ok(<<first.val>> \o rest.val)
                      ELSE Malformed

DecodeTuple(T, bs) == DecodeMembers(T.m, bs)

\* ABI: a static element back from its word.
UnWord(E, word) ==
    IF E.k = "bytesN" THEN DecodeStatic(E, Take(word, Width(E)))
    ELSE DecodeStatic(E, TakeLast(word, Width(E)))

\* ABI: a bytes or string element back from its offset into the element area.
UnTail(E, area, off) ==
    IF off > Len(area) - WordBytes THEN Malformed
    ELSE LET len == BytesToUint(SubSeq(area, off + 1, off + WordBytes))
         IN  IF len > Len(area) - off - WordBytes THEN Malformed
             ELSE DecodeStatic(E, SubSeq(area, off + WordBytes + 1, off + WordBytes + len))

DecodeArray(T, bs) ==
    IF Len(bs) < WordBytes THEN Malformed
    ELSE LET E     == T.m[1]
             count == BytesToUint(Take(bs, WordBytes))
             area  == Drop(bs, WordBytes)
         IN  IF count > Len(area) \div WordBytes THEN Malformed
             ELSE LET word(i) == SubSeq(area, (i - 1) * WordBytes + 1, i * WordBytes)
                      elems == [i \in 1..count |->
                                  IF IsDynamic(E) THEN UnTail(E, area, BytesToUint(word(i)))
                                  ELSE UnWord(E, word(i))]
                  IN  IF \A i \in 1..count : elems[i].ok
                      THEN Ok([i \in 1..count |-> elems[i].val])
                      ELSE Malformed

DecodeValue(T, bs) ==
    CASE T.k = "tuple" -> DecodeTuple(T, bs)
      [] T.k = "array" -> DecodeArray(T, bs)
      [] OTHER         -> DecodeStatic(T, bs)

(***************************************************************************)
(* The types and values the encoding is exercised on.                      *)
(***************************************************************************)
MaxStrLen == 2         \* characters of a string value
MaxBytesLen == 2       \* bytes of a bytes value
MaxElemLen == 1        \* characters or bytes of a string or bytes nested in a tuple or array
MaxTupleLen == 2       \* members of a tuple type
MaxArrLen == 2         \* elements of an array value
MaxSmallUint == 5      \* the small numbers 0..MaxSmallUint are tried at every width

StrChars == {72, 233, 8364}          \* "H", e-acute, the euro sign: 1, 2 and 3 UTF-8 bytes
ByteVals == {0, 202, 255}

\* 0xcafecafecafecafecafecafecafecafecafecafe (MappingToAddressSchema)
CafeAddress ==
    <<12, 10, 15, 14, 12, 10, 15, 14, 12, 10, 15, 14, 12, 10, 15, 14, 12, 10, 15, 14,
      12, 10, 15, 14, 12, 10, 15, 14, 12, 10, 15, 14, 12, 10, 15, 14, 12, 10, 15, 14>>

\* 0x388C818CA8B9251b393131C08a736A67ccB19297 (the encoding table)
TableAddress ==
    <<3, 8, 8, 12, 8, 1, 8, 12, 10, 8, 11, 9, 2, 5, 1, 11, 3, 9, 3, 1,
      3, 1, 12, 0, 8, 10, 7, 3, 6, 10, 6, 7, 12, 12, 11, 1, 9, 2, 9, 7>>

ZeroAddress == Zeros(2 * AddressBytes)

\* 0xaaaabbbbccccddddeeeeffff111122223333444455556666777788889999aaaa
Bytes32Example ==
    <<170, 170, 187, 187, 204, 204, 221, 221, 238, 238, 255, 255,  17,  17,  34,  34,
       51,  51,  68,  68,  85,  85, 102, 102, 119, 119, 136, 136, 153, 153, 170, 170>>

CafeBytes(n) == [i \in 1..n |-> IF i % 2 = 1 THEN 202 ELSE 254]

\* Numbers of uintN that fit the checker's integers.
UintValues(n) ==
    (0..MaxSmallUint) \cup {255}
    \cup (IF n >= 16 THEN {256, 65535} ELSE {})
    \cup (IF n >= 32 THEN {65536, 16777216 + MaxSmallUint} ELSE {})

\* bytesN inputs: exactly n bytes, and shorter ones that encodeValue pads.
BytesNValues(n) == {Take(Bytes32Example, n), CafeBytes(n), Zeros(n), Append(Zeros(n - 1), 1)}
BytesNInputs(n) == BytesNValues(n) \cup {<<>>, <<202>>, CafeBytes(n - 1)}

BaseInputs(T, len) ==
    CASE T.k = "bool"    -> BOOLEAN
      [] T.k = "string"  -> SeqsUpTo(StrChars, len)
      [] T.k = "bytes"   -> SeqsUpTo(ByteVals, len)
      [] T.k = "address" -> {CafeAddress, TableAddress, ZeroAddress}
      [] T.k = "uint"    -> UintValues(T.n)
      [] T.k = "bytesN"  -> BytesNInputs(T.n)

RECURSIVE Product(_)
Product(sets) ==
    IF sets = <<>> THEN {<<>>}
    ELSE {<<x>> \o rest : x \in Head(sets), rest \in Product(Tail(sets))}

BaseTypes ==
    {TBool, TString, TBytes, TAddress, TUint(8), TUint(16), TUint(32), TUint(128),
     TUint(256), TBytesN(2), TBytesN(4), TBytesN(32)}

TupleMemberTypes == {TBytesN(4), TUint(128), TString, TBytes}
ArrayElemTypes == {TBool, TAddress, TUint(8), TUint(256), TBytesN(4), TString, TBytes}

TupleTypes == {TTuple(ms) : ms \in SeqsUpTo(TupleMemberTypes, MaxTupleLen) \ {<<>>}}
ArrayTypes == {TArray(E) : E \in ArrayElemTypes}

Types == BaseTypes \cup TupleTypes \cup ArrayTypes

\* A nested value: the short strings and bytes, and of uintN and bytesN two values each.
ElemInputs(T) ==
    CASE T.k = "uint"   -> {5, 255}
      [] T.k = "bytesN" -> {CafeBytes(T.n), Zeros(T.n), <<202>>}
      [] OTHER          -> BaseInputs(T, MaxElemLen)

InputsOf(T) ==
    CASE T.k = "tuple" -> Product([i \in DOMAIN T.m |-> ElemInputs(T.m[i])])
      [] T.k = "array" -> SeqsUpTo(ElemInputs(T.m[1]), MaxArrLen)
      [] T.k = "string" -> BaseInputs(T, MaxStrLen)
      [] T.k = "bytes"  -> BaseInputs(T, MaxBytesLen)
      [] OTHER          -> BaseInputs(T, 0)

\* A value of the type itself: a bytesN value has exactly N bytes.
IsBaseValue(T, v) == T.k = "bytesN" => Len(v) = T.n

IsValue(T, v) ==
    CASE T.k = "tuple" -> \A i \in DOMAIN T.m : IsBaseValue(T.m[i], v[i])
      [] T.k = "array" -> \A i \in DOMAIN v : IsBaseValue(T.m[1], v[i])
      [] OTHER         -> IsBaseValue(T, v)

\* Bytes read back that are not the encoding written: one byte lost, all bytes
\* lost, one byte too many, and for an array its count raised by one or its
\* last word lost.
Tamperings(T, bs) ==
    (IF bs # <<>> THEN {Front(bs), <<>>} ELSE {})
    \cup (IF T.k # "array" THEN {Append(bs, 0)} ELSE {})
    \cup (IF T.k = "array" /\ Len(bs) >= WordBytes
          THEN {UintBytes(BytesToUint(Take(bs, WordBytes)) + 1, WordBytes)
                    \o Drop(bs, WordBytes)}
               \cup (IF Len(bs) >= 2 * WordBytes
                     THEN {SubSeq(bs, 1, Len(bs) - WordBytes)} ELSE {})
          ELSE {})

NoResult == [ok |-> FALSE, val |-> <<>>, err |-> "notRun"]

CIdle ==
    /\ cType = TBool
    /\ cValue = FALSE
    /\ cBytes = <<>>
    /\ cOut = NoResult
    /\ cpc = "idle"

CInit ==
    /\ \E T \in Types : cType = T /\ cValue \in InputsOf(T)
    /\ cBytes = <<>>
    /\ cOut = NoResult
    /\ cpc = "input"

\* encodeValue(valueType, value)
CEncode ==
    /\ cpc = "input"
    /\ cBytes' = EncodeValue(cType, cValue)
    /\ cpc' = "encoded"
    /\ UNCHANGED <<cType, cValue, cOut>>

\* The bytes found under the key are not the ones written.
CTamper ==
    /\ cpc = "encoded"
    /\ IsFixed(cType) \/ cType.k = "array"
    /\ \E bs \in Tamperings(cType, cBytes) : cBytes' = bs
    /\ cpc' = "tampered"
    /\ UNCHANGED <<cType, cValue, cOut>>

\* decodeValue(valueType, bytes)
CDecode ==
    /\ cpc \in {"encoded", "tampered"}
    /\ cOut' = DecodeValue(cType, cBytes)
    /\ cpc' = IF cpc = "encoded" THEN "decoded" ELSE "decodedTampered"
    /\ UNCHANGED <<cType, cValue, cBytes>>

(***************************************************************************)
(* schemas.ts, key types: how the 32-byte data key is laid out.            *)
(***************************************************************************)
MappingHashBytes == 10 \* Mapping: bytes of the first word's hash
GroupFirstBytes == 6   \* MappingWithGrouping: bytes of the first word's hash
GroupSecondBytes == 4  \* MappingWithGrouping: bytes of the second word's hash
SlotBytes == 20        \* the last part of a Mapping or MappingWithGrouping key
ArrayPrefixBytes == 16 \* Array: bytes of the base key kept in an element key
ArrayIndexBytes == 16  \* Array: bytes of the element index

\* Keccak256 of the words the schemas use.
Keccak256(word) ==
    CASE word = "LSP3Profile" ->
            << 94, 248,  58, 217,  85, 144,  51, 230, 233,  65, 219, 125, 124,  73,  90, 205,
              206,  97,  99,  71, 210, 142, 144, 199, 206,  71, 203, 252, 252, 173,  59, 197>>
      [] word = "SupportedStandards" ->
            <<234, 254, 196, 216, 159, 169,  97, 152, 132, 182, 184, 145,  53,  98, 100,  85,
               86,  37,  73,   5,  67, 108,  61, 201,  76, 237, 202, 243, 153, 235,  99, 178>>
      [] word = "AddressPermissions" ->
            << 75, 128, 116,  45, 226, 191, 196, 233, 108,  70,  70, 161, 163, 171,  13, 149,
               60, 239, 196,  57, 160,  54, 132,  28,  41, 206,  67, 251,  38,  83, 236, 125>>
      [] word = "Permissions" ->
            <<130, 172, 179,  99,   3,  33, 161, 240, 235, 163,  30, 213,  10, 117, 143, 235,
               83,  82,  67,  87, 124,  26, 121, 174,  85, 190, 216, 202,   3, 226,  38, 236>>
      [] word = "ReceivedAssetsMap" ->
            << 52, 182,  37, 224,  19,  75,  98, 173, 249,  98, 223, 249,   9, 193, 222, 173,
                6,   8, 207, 126, 119, 215, 207,  98, 244, 154, 121, 101, 253, 124,  67, 139>>
      [] word = "Metadata" ->
            << 31,  79,  43, 151, 158, 167, 193, 148,  18, 246,  54, 115,  82, 138, 152,  94,
              228,  24, 205, 109, 121, 255,  36,  54,  71,  43,  67, 249, 103,   5, 162, 224>>
      [] word = "TokenName" ->
            <<135,  47, 201, 189,  21,   8,  18,  18, 112, 123, 195,  76,  30,  20, 214,  20,
                2, 113, 253, 119,  66,   8, 231, 188,  29, 210, 220, 189, 106,  39,  10, 253>>
      [] word = "PostHistory[]" ->
            <<219,  52, 138,  72, 114, 215,  73, 106, 172, 116, 205,  86, 169, 147, 159, 192,
              111, 242, 138, 125, 116, 243, 171,  82,  40,  64, 131,  53, 100, 179, 168, 106>>
      [] word = "LSP5ReceivedAssets[]" ->
            <<100,  96, 238,  60,  10, 172,  86,  60, 203, 247, 109, 110,  29,   7, 186, 218,
              120, 227, 169,  81,  78,  99, 130, 183,  54, 237,  63,  71, 138, 183, 185,  11>>
      [] word = "LSP12IssuedAssets[]" ->
            <<124, 140,  52,  22, 214, 205, 168, 124, 212,  44, 113, 234,  24,  67, 223,  40,
              172,  72,  80,  53,  79, 152, 141,  85, 238,  46, 170,  71, 182, 220,   5, 205>>

\* A schema name is its parts between the colons: a word, or a <type> to be
\* filled by the dynamic parameter.
TNone == [k |-> "none", n |-> 0, m |-> <<>>]
W(word) == [w |-> word, t |-> TNone]
P(type) == [w |-> "", t |-> type]
IsParam(part) == part.t.k # "none"

SchemaOf(parts, keyType) == [name |-> parts, keyType |-> keyType]

\* The key literals of the example schemas.
MappingWordToWordKey ==
    <<234, 254, 196, 216, 159, 169,  97, 152, 132, 182,   0,   0,  94, 248,  58, 217,
       85, 144,  51, 230, 233,  65, 219, 125, 124,  73,  90, 205, 206,  97,  99,  71>>

MappingToAddressKey ==
    <<129,  44,  67,  52,  99,  62, 184,  22, 200,  13,   0,   0, 202, 254, 202, 254,
      202, 254, 202, 254, 202, 254, 202, 254, 202, 254, 202, 254, 202, 254, 202, 254>>

MappingToBytes32Key ==
    <<115, 220, 199, 195, 196,   9, 108, 220, 127, 138,   0,   0, 170, 170, 187, 187,
      204, 204, 221, 221, 238, 238, 255, 255,  17,  17,  34,  34,  51,  51,  68,  68>>

\* "0x4b80742de2bf82acb3630000<address>"
MappingWithGroupingPrefix ==
    << 75, 128, 116,  45, 226, 191, 130, 172, 179,  99,   0,   0>>

\* Data Handling for Mixed Types: all data types are left-padded; larger than
\* 20 bytes, uint<M>, int<M> and bool are left-cut, bytes<M> and address are
\* right-cut.
\* Every type cut on the left.
Slot20LeftCut(T, v) ==
    LET enc == EncodeStatic(T, v) IN
    IF Len(enc) > SlotBytes THEN TakeLast(enc, SlotBytes) ELSE LeftPad(enc, SlotBytes)

\* No cut at all.
Slot20Uncut(T, v) == LeftPad(EncodeStatic(T, v), SlotBytes)

Slot20(T, v) ==
    LET enc == EncodeStatic(T, v) IN
    IF Len(enc) > SlotBytes
    THEN IF T.k \in {"uint", "bool"} THEN TakeLast(enc, SlotBytes)
         ELSE Take(enc, SlotBytes)
    ELSE LeftPad(enc, SlotBytes)

\* The last 20 bytes: of a word its hash, of a <type> the dynamic parameter.
Part20(part, param) ==
    IF IsParam(part) THEN Slot20(part.t, param) ELSE Take(Keccak256(part.w), SlotBytes)

Key(bs) == [ok |-> TRUE, key |-> bs, err |-> "none"]

\* The second word's hash taken from its end.
DeriveKeyHashTail(schema, param) ==
    LET name == schema.name IN
    CASE schema.keyType = "Singleton" -> Key(Keccak256(name[1].w))
      [] schema.keyType = "Array"     -> Key(Keccak256(name[1].w))
      [] schema.keyType = "Mapping"   ->
            Key(Take(Keccak256(name[1].w), MappingHashBytes) \o <<0, 0>>
                \o (IF IsParam(name[2]) THEN Slot20(name[2].t, param)
                    ELSE TakeLast(Keccak256(name[2].w), SlotBytes)))
      [] schema.keyType = "MappingWithGrouping" ->
            Key(Take(Keccak256(name[1].w), GroupFirstBytes)
                \o Take(Keccak256(name[2].w), GroupSecondBytes) \o <<0, 0>>
                \o Part20(name[3], param))

\* MappingWithGrouping laid out as a Mapping of its first and last parts.
DeriveKeyUngrouped(schema, param) ==
    LET name == schema.name IN
    CASE schema.keyType = "Singleton" -> Key(Keccak256(name[1].w))
      [] schema.keyType = "Array"     -> Key(Keccak256(name[1].w))
      [] schema.keyType = "Mapping"   ->
            Key(Take(Keccak256(name[1].w), MappingHashBytes) \o <<0, 0>>
                \o Part20(name[2], param))
      [] schema.keyType = "MappingWithGrouping" ->
            Key(Take(Keccak256(name[1].w), MappingHashBytes) \o <<0, 0>>
                \o Part20(name[3], param))

DeriveKey(schema, param) ==
    LET name == schema.name IN
    CASE schema.keyType = "Singleton" -> Key(Keccak256(name[1].w))
      [] schema.keyType = "Array"     -> Key(Keccak256(name[1].w))
      [] schema.keyType = "Mapping"   ->
            Key(Take(Keccak256(name[1].w), MappingHashBytes) \o <<0, 0>>
                \o Part20(name[2], param))
      [] schema.keyType = "MappingWithGrouping" ->
            Key(Take(Keccak256(name[1].w), GroupFirstBytes)
                \o Take(Keccak256(name[2].w), GroupSecondBytes) \o <<0, 0>>
                \o Part20(name[3], param))

\* Array: element i lives at the first 16 bytes of the base key followed by
\* the index as a uint128.
\* The index kept in one byte.
ArrayElementKeyByte(K, i) == Take(K, ArrayPrefixBytes) \o UintBytes(i % 256, ArrayIndexBytes)

ArrayElementKey(K, i) == Take(K, ArrayPrefixBytes) \o UintBytes(i, ArrayIndexBytes)

(***************************************************************************)
(* The schemas and parameters the key derivation is exercised on.          *)
(***************************************************************************)
MaxIndex == 300        \* array indexes 0..MaxIndex are tried

Words == {"LSP3Profile", "SupportedStandards", "AddressPermissions", "Permissions",
          "ReceivedAssetsMap", "Metadata", "TokenName"}

ParamTypes == {TAddress, TBytesN(4), TBytesN(20), TBytesN(32), TUint(32), TUint(256), TBool}

Schemas ==
    {SchemaOf(<<W(a)>>, "Singleton") : a \in Words}
    \cup {SchemaOf(<<W(a)>>, "Array") :
            a \in {"PostHistory[]", "LSP5ReceivedAssets[]", "LSP12IssuedAssets[]"}}
    \cup {SchemaOf(<<W(a), W(b)>>, "Mapping") : a \in Words, b \in {"LSP3Profile", "Permissions"}}
    \cup {SchemaOf(<<W(a), P(T)>>, "Mapping") :
            a \in {"ReceivedAssetsMap", "Metadata"}, T \in ParamTypes}
    \cup {SchemaOf(<<W("AddressPermissions"), W("Permissions"), P(T)>>, "MappingWithGrouping") :
            T \in ParamTypes}
    \cup {SchemaOf(<<W("AddressPermissions"), W(b), W(c)>>, "MappingWithGrouping") :
            b \in {"Permissions", "Metadata"}, c \in {"LSP3Profile", "AddressPermissions"}}

LastPart(schema) == schema.name[Len(schema.name)]

\* The parameter values of a type: every byte present (a bytesN parameter has
\* exactly N bytes).
ParamValues(T) ==
    IF T.k = "bytesN" THEN BytesNValues(T.n) ELSE BaseInputs(T, 0)

NoParam == <<>>

ParamsFor(schema) ==
    IF IsParam(LastPart(schema)) THEN ParamValues(LastPart(schema).t) ELSE {NoParam}

Indexes == (0..MaxIndex) \cup {65535, 65536, 16777216 + MaxIndex}

NoKey == [ok |-> FALSE, key |-> <<>>, err |-> "notRun"]

KIdle ==
    /\ kSchema = SchemaOf(<<W("LSP3Profile")>>, "Singleton")
    /\ kParam = NoParam
    /\ kIndex = 0
    /\ kKey = NoKey
    /\ kElem = <<>>
    /\ kpc = "idle"

KInit ==
    /\ \E schema \in Schemas :
        /\ kSchema = schema
        /\ kParam \in ParamsFor(schema)
        /\ kIndex \in IF schema.keyType = "Array" THEN Indexes ELSE {0}
    /\ kKey = NoKey
    /\ kElem = <<>>
    /\ kpc = "input"

\* deriveKey(schema, param)
KDerive ==
    /\ kpc = "input"
    /\ kKey' = DeriveKey(kSchema, kParam)
    /\ kpc' = "derived"
    /\ UNCHANGED <<kSchema, kParam, kIndex, kElem>>

\* The key of element kIndex of an Array schema.
KElement ==
    /\ kpc = "derived"
    /\ kSchema.keyType = "Array"
    /\ kKey.ok
    /\ kElem' = ArrayElementKey(kKey.key, kIndex)
    /\ kpc' = "element"
    /\ UNCHANGED <<kSchema, kParam, kIndex, kKey>>

(***************************************************************************)
(* The LSP3Profile schema of handleNameUpdate, step 3.                     *)
(***************************************************************************)
LSP3ProfileKey ==
    << 94, 248,  58, 217,  85, 144,  51, 230, 233,  65, 219, 125, 124,  73,  90, 205,
      206,  97,  99,  71, 210, 142, 144, 199, 206,  71, 203, 252, 252, 173,  59, 197>>

LSP3ProfileSchema ==
    [name |-> "LSP3Profile", key |-> LSP3ProfileKey, keyType |-> "Singleton",
     valueType |-> "bytes", valueContent |-> "VerifiableURI"]

ToastUpdating == "Updating your profile name..."
ToastSuccess  == "Name updated successfully!"
ToastFailed   == "Failed to update name"

\* What uploadMetadataToIPFS may resolve to: a gateway URL that holds "/ipfs/"
\* and one that does not.
UploadUrls == {[gateway |-> TRUE, cid |-> "Qm1"], [gateway |-> FALSE, cid |-> "Qm1"]}

\* `ipfs://${metadataIpfsUrl.split('/ipfs/')[1]}`
IpfsUrl(u) == IF u.gateway THEN <<"ipfs://", u.cid>> ELSE <<"ipfs://", "undefined">>

\* erc725.encodeData([{keyName: 'LSP3Profile', value: {json, url}}]).values[0]
EncodeData(name, u) == [json |-> name, url |-> IpfsUrl(u)]

(***************************************************************************)
(* The Update button: disabled={isUpdating || !newName.trim()}.            *)
(***************************************************************************)
ButtonEnabled == ~isUpdating /\ Trim(newName) # <<>>

\* if (!newName.trim() || !client || !accounts?.[0]) return;
GuardPasses == Trim(newName) # <<>> /\ client /\ accounts # <<>>

HInit ==
    /\ newName = <<>>
    /\ isUpdating = FALSE
    /\ client = FALSE
    /\ accounts = <<>>
    /\ pc = "idle"
    /\ runName = <<>>
    /\ runAccount = ""
    /\ submitted = <<>>
    /\ toasts = <<>>
    /\ trace = <<>>
    /\ bgPending = 0
    /\ consoleErrors = 0

\* onChange={(e) => setNewName(e.target.value)}
TypeName ==
    \E v \in Names :
        /\ v # newName
        /\ newName' = v
        /\ UNCHANGED <<isUpdating, client, accounts, pc, runName, runAccount,
                       submitted, toasts, trace, bgPending, consoleErrors>>

\* useUpProvider(): the wallet connects or disconnects.
ProviderChange ==
    \E c \in BOOLEAN, a \in {<<>>, <<"0xUP1">>, <<"0xUP2">>} :
        /\ <<c, a>> # <<client, accounts>>
        /\ client' = c
        /\ accounts' = a
        /\ UNCHANGED <<newName, isUpdating, pc, runName, runAccount, submitted,
                       toasts, trace, bgPending, consoleErrors>>

\* The catch block without the finally block after it.
CatchNoFinally(tr, ts) ==
    /\ toasts' = Append(ts, ToastFailed)
    /\ trace' = Append(tr, "catch")
    /\ isUpdating' = isUpdating
    /\ pc' = "done"

\* catch { toast("Failed to update name") } finally { setIsUpdating(false) }
CatchFinally(tr, ts) ==
    /\ toasts' = Append(ts, ToastFailed)
    /\ trace' = Append(tr, "catch")
    /\ isUpdating' = FALSE
    /\ pc' = "done"

\* onClick={handleNameUpdate}: the guard, setIsUpdating(true), step 1 (prepare
\* the metadata) and the call of uploadMetadataToIPFS, up to the first await.
ClickUpdate ==
    /\ ButtonEnabled
    /\ pc \in {"idle", "done"}
    /\ bgPending < MaxBackground
    /\ IF GuardPasses
       THEN /\ isUpdating' = TRUE
            /\ runName' = Trim(newName)
            /\ runAccount' = accounts[1]
            /\ submitted' = <<>>
            /\ toasts' = <<>>
            /\ trace' = <<"prepare", "uploadCall">>
            /\ pc' = "awaitUpload"
       ELSE /\ trace' = <<"guardReturn">>
            /\ toasts' = <<>>
            /\ submitted' = <<>>
            /\ pc' = "done"
            /\ UNCHANGED <<isUpdating, runName, runAccount>>
    /\ UNCHANGED <<newName, client, accounts, bgPending, consoleErrors>>

\* await uploadMetadataToIPFS(metadata) throws.
UploadThrows ==
    /\ pc = "awaitUpload"
    /\ CatchFinally(Append(trace, "uploadThrew"), toasts)
    /\ UNCHANGED <<newName, client, accounts, runName, runAccount, submitted,
                   bgPending, consoleErrors>>

\* await uploadMetadataToIPFS(metadata) returns; step 3 encodes, the "Updating"
\* toast is shown, and step 4 hands setData to client.writeContract.
\* setData handed to the wallet before the value is encoded.
UploadReturnsSubmitsFirst ==
    /\ pc = "awaitUpload"
    /\ \E u \in UploadUrls, encodeOk \in BOOLEAN :
        LET t1 == Append(trace, "uploaded")
            tx == [functionName |-> "setData", address |-> runAccount,
                   key |-> LSP3ProfileSchema.key, value |-> EncodeData(runName, u)]
        IN  /\ submitted' = Append(submitted, tx)
            /\ IF ~encodeOk
               THEN CatchFinally(t1 \o <<"submit", "encodeThrew">>, toasts)
               ELSE /\ toasts' = Append(toasts, ToastUpdating)
                    /\ trace' = t1 \o <<"submit", "encoded">>
                    /\ pc' = "awaitWrite"
                    /\ UNCHANGED isUpdating
    /\ UNCHANGED <<newName, client, accounts, runName, runAccount, bgPending,
                   consoleErrors>>

UploadReturns ==
    /\ pc = "awaitUpload"
    /\ \E u \in UploadUrls, encodeOk \in BOOLEAN :
        LET t1 == Append(trace, "uploaded") IN
        IF ~encodeOk
        THEN /\ CatchFinally(Append(t1, "encodeThrew"), toasts)
             /\ UNCHANGED submitted
        ELSE /\ toasts' = Append(toasts, ToastUpdating)
             /\ submitted' = Append(submitted,
                    [functionName |-> "setData", address |-> runAccount,
                     key |-> LSP3ProfileSchema.key,
                     value |-> EncodeData(runName, u)])
             /\ trace' = t1 \o <<"encoded", "submit">>
             /\ pc' = "awaitWrite"
             /\ UNCHANGED isUpdating
    /\ UNCHANGED <<newName, client, accounts, runName, runAccount, bgPending,
                   consoleErrors>>

\* The catch block clearing the input as the success path does.
WriteThrowsClears ==
    /\ pc = "awaitWrite"
    /\ CatchFinally(Append(trace, "writeThrew"), toasts)
    /\ newName' = <<>>
    /\ UNCHANGED <<client, accounts, runName, runAccount, submitted,
                   bgPending, consoleErrors>>

\* await client.writeContract(...) throws (the wallet rejects, the RPC fails).
WriteThrows ==
    /\ pc = "awaitWrite"
    /\ CatchFinally(Append(trace, "writeThrew"), toasts)
    /\ UNCHANGED <<newName, client, accounts, runName, runAccount, submitted,
                   bgPending, consoleErrors>>

\* await client.writeContract(...) returns the hash: the success toast, then
\* createPublicClient and publicClient.waitForTransactionReceipt(...), either of
\* which may throw inside the try block, then setNewName('').
WriteReturns ==
    /\ pc = "awaitWrite"
    /\ \E after \in {"ok", "publicClientThrew", "waitCallThrew"} :
        LET ts == Append(toasts, ToastSuccess)
            tr == Append(trace, "written")
        IN  IF after = "ok"
            THEN /\ toasts' = ts
                 /\ trace' = tr \o <<"receiptWaitStarted", "cleared">>
                 /\ bgPending' = bgPending + 1
                 /\ newName' = <<>>
                 /\ isUpdating' = FALSE
                 /\ pc' = "done"
            ELSE /\ CatchFinally(Append(tr, after), ts)
                 /\ UNCHANGED <<newName, bgPending>>
    /\ UNCHANGED <<client, accounts, runName, runAccount, submitted, consoleErrors>>

\* .then(receipt => { if (!receipt) console.error(...) }).catch(console.error)
ReceiptSettles ==
    /\ bgPending > 0
    /\ \E outcome \in {"receipt", "noReceipt", "rejected"} :
        consoleErrors' = IF outcome = "receipt" \/ consoleErrors >= MaxConsole
                         THEN consoleErrors ELSE consoleErrors + 1
    /\ bgPending' = bgPending - 1
    /\ UNCHANGED <<newName, isUpdating, client, accounts, pc, runName, runAccount,
                   submitted, toasts, trace>>

(***************************************************************************)
(* The specifications: the name update flow, the value encoding and the    *)
(* key derivation. Each leaves the variables of the others alone.          *)
(***************************************************************************)
Init == HInit /\ CIdle /\ KIdle

Next ==
    \/ TypeName /\ UNCHANGED <<cvars, kvars>>
    \/ ProviderChange /\ UNCHANGED <<cvars, kvars>>
    \/ ClickUpdate /\ UNCHANGED <<cvars, kvars>>
    \/ UploadThrows /\ UNCHANGED <<cvars, kvars>>
    \/ UploadReturns /\ UNCHANGED <<cvars, kvars>>
    \/ WriteThrows /\ UNCHANGED <<cvars, kvars>>
    \/ WriteReturns /\ UNCHANGED <<cvars, kvars>>
    \/ ReceiptSettles /\ UNCHANGED <<cvars, kvars>>

Spec == Init /\ [][Next]_vars

\* The awaited promises settle: uploadMetadataToIPFS and client.writeContract
\* each return or throw in the end. Nothing is asked of the user, of the
\* wallet connection or of the background waitForTransactionReceipt.
FairSpec ==
    /\ Spec
    /\ WF_vars((UploadThrows \/ UploadReturns) /\ UNCHANGED <<cvars, kvars>>)
    /\ WF_vars((WriteThrows \/ WriteReturns) /\ UNCHANGED <<cvars, kvars>>)

CodecInit == HInit /\ CInit /\ KIdle

CodecNext ==
    \/ CEncode /\ UNCHANGED <<hvars, kvars>>
    \/ CTamper /\ UNCHANGED <<hvars, kvars>>
    \/ CDecode /\ UNCHANGED <<hvars, kvars>>

CodecSpec == CodecInit /\ [][CodecNext]_vars

KeyInit == HInit /\ CIdle /\ KInit

KeyNext ==
    \/ KDerive /\ UNCHANGED <<hvars, cvars>>
    \/ KElement /\ UNCHANGED <<hvars, cvars>>

KeySpec == KeyInit /\ [][KeyNext]_vars

(***************************************************************************)
(* Properties.                                                             *)
(***************************************************************************)
Range(seq) == {seq[i] : i \in DOMAIN seq}
Count(seq, x) == Cardinality({i \in DOMAIN seq : seq[i] = x})
Slice(seq, from, to) == [i \in 1..(to - from + 1) |-> seq[from + i - 1]]
AllZero(seq) == \A i \in DOMAIN seq : seq[i] = 0
Decoded == cpc \in {"decoded", "decodedTampered"}
Refused(out) == ~out.ok /\ out.err = "MalformedValue" /\ out.val = <<>>

\* Only the last member of a tuple type is a string or bytes.
DynamicOnlyLast(T) ==
    T.k = "tuple" => \A i \in DOMAIN T.m : IsDynamic(T.m[i]) => i = Len(T.m)

\* C1, as stated: every value of every supported type, tuples of string and
\* bytes members included, comes back from decodeValue(T, encodeValue(T, v)).
C1_RoundTripEveryType ==
    (cpc = "decoded" /\ IsValue(cType, cValue)) => (cOut.ok /\ cOut.val = cValue)

\* C1, amended: decodeValue(T, encodeValue(T, v)) = v for every value v of
\* bool, string, bytes, address, uintN, bytesN, T[], and of the tuples in
\* which no member but the last is a string or bytes.
C1_RoundTrip ==
    (cpc = "decoded" /\ IsValue(cType, cValue) /\ DynamicOnlyLast(cType))
        => (cOut.ok /\ cOut.val = cValue)

C1_Witness ==
    /\ cpc = "decoded"
    /\ cType = TTuple(<<TBytesN(4), TString>>)
    /\ cValue = <<CafeBytes(4), <<8364>>>>
    /\ cBytes = <<202, 254, 202, 254, 226, 130, 172>>
    /\ cOut.ok
    /\ cOut.val = cValue

\* C2: the key of a Mapping schema "A:B" of two words is the first 10 bytes
\* of keccak256(A), two zero bytes, the first 20 bytes of keccak256(B); for
\* SupportedStandards:LSP3Profile it is the literal of the example schema,
\* whose last 20 bytes open the LSP3Profile key that handleNameUpdate writes.
C2_MappingWordToWord ==
    (/\ kpc = "derived"
     /\ kSchema.keyType = "Mapping"
     /\ ~IsParam(kSchema.name[2]))
        => /\ kKey.ok
           /\ Len(kKey.key) = 32
           /\ Slice(kKey.key, 1, 10) = Slice(Keccak256(kSchema.name[1].w), 1, 10)
           /\ kKey.key[11] = 0 /\ kKey.key[12] = 0
           /\ Slice(kKey.key, 13, 32) = Slice(Keccak256(kSchema.name[2].w), 1, 20)
           /\ (kSchema.name[1].w = "SupportedStandards" /\ kSchema.name[2].w = "LSP3Profile")
                => /\ kKey.key = MappingWordToWordKey
                   /\ Slice(kKey.key, 13, 32) = Slice(LSP3ProfileSchema.key, 1, 20)

C2_Witness ==
    /\ kpc = "derived"
    /\ kSchema = SchemaOf(<<W("SupportedStandards"), W("LSP3Profile")>>, "Mapping")
    /\ kKey.ok
    /\ kKey.key = MappingWordToWordKey

\* The head of a Mapping word:type key.
MappingToTypeDerived ==
    /\ kpc = "derived"
    /\ kSchema.keyType = "Mapping"
    /\ IsParam(kSchema.name[2])

MappingHead ==
    /\ kKey.ok
    /\ Len(kKey.key) = 32
    /\ Slice(kKey.key, 1, 10) = Slice(Keccak256(kSchema.name[1].w), 1, 10)
    /\ kKey.key[11] = 0 /\ kKey.key[12] = 0

\* The slot of an address and of a bytesM of 20 bytes or more: the parameter's
\* first 20 bytes.
SlotOfWideBytes ==
    LET T == kSchema.name[2].t
        slot == Slice(kKey.key, 13, 32)
    IN  /\ T.k = "address" => slot = HexToBytes(kParam)
        /\ (T.k = "bytesN" /\ T.n >= 20) => slot = Slice(kParam, 1, 20)
        /\ (T.k = "address" /\ kParam = CafeAddress)
             => Slice(kKey.key, 11, 32) = Slice(MappingToAddressKey, 11, 32)
        /\ (T.k = "bytesN" /\ kParam = Bytes32Example)
             => Slice(kKey.key, 11, 32) = Slice(MappingToBytes32Key, 11, 32)

WideParamDerived ==
    /\ kpc = "derived"
    /\ kSchema.keyType \in {"Mapping", "MappingWithGrouping"}
    /\ IsParam(LastPart(kSchema))
    /\ Width(LastPart(kSchema).t) > 20

\* C4, as stated: a dynamic parameter wider than the 20-byte slot makes the
\* derivation fail with InvalidDynamicParameter, and no key is produced.
C4_WideParamRefused ==
    WideParamDerived =>
        (~kKey.ok /\ kKey.err = "InvalidDynamicParameter" /\ kKey.key = <<>>)

\* C4, amended: a dynamic parameter wider than the 20-byte slot never makes
\* the derivation fail: a 32-byte key is produced whose slot is the parameter
\* cut to 20 bytes (the first 20 bytes of a bytesM, the last 20 of a uintM).
C4_WideParamCut ==
    WideParamDerived =>
        LET T == LastPart(kSchema).t
            slot == Slice(kKey.key, 13, 32)
        IN  /\ kKey.ok
            /\ kKey.err # "InvalidDynamicParameter"
            /\ Len(kKey.key) = 32
            /\ T.k = "bytesN" => slot = Slice(kParam, 1, 20)
            /\ T.k = "uint" => (BytesToUint(slot) = kParam /\ AllZero(Slice(slot, 1, 16)))

C4_Witness ==
    /\ WideParamDerived
    /\ kSchema.keyType = "MappingWithGrouping"
    /\ LastPart(kSchema).t = TBytesN(32)
    /\ kParam = Bytes32Example
    /\ kKey.ok
    /\ Len(kKey.key) = 32

\* C5: element i of an Array schema with base key K lives at K[0:16] followed
\* by i as 16 big-endian bytes; the element key shares its first 16 bytes with
\* K, and no other index yields the same key.
C5_ArrayElementKey ==
    kpc = "element" =>
        /\ Len(kElem) = 32
        /\ Slice(kElem, 1, 16) = Slice(kKey.key, 1, 16)
        /\ AllZero(Slice(kElem, 17, 28))
        /\ kElem[29] = (kIndex \div 16777216) % 256
        /\ kElem[30] = (kIndex \div 65536) % 256
        /\ kElem[31] = (kIndex \div 256) % 256
        /\ kElem[32] = kIndex % 256
        /\ \A j \in Indexes : j # kIndex => ArrayElementKey(kKey.key, j) # kElem

C5_Witness ==
    /\ kpc = "element"
    /\ kSchema.name[1].w = "PostHistory[]"
    /\ kIndex = 261
    /\ Slice(kElem, 1, 16) = Slice(Keccak256("PostHistory[]"), 1, 16)
    /\ Slice(kElem, 17, 32) = Zeros(14) \o <<1, 5>>

\* C6: a MappingWithGrouping key is 32 bytes: 6 bytes of the first word's
\* hash, 4 bytes of the second word's hash, 2 zero bytes, 20 bytes of the third
\* word or parameter; under AddressPermissions:Permissions:<address> any
\* address leaves the prefix 0x4b80742de2bf82acb3630000 as it is.
C6_MappingWithGrouping ==
    (kpc = "derived" /\ kSchema.keyType = "MappingWithGrouping") =>
        LET third == kSchema.name[3] IN
        /\ kKey.ok
        /\ Len(kKey.key) = 32
        /\ Slice(kKey.key, 1, 6) = Slice(Keccak256(kSchema.name[1].w), 1, 6)
        /\ Slice(kKey.key, 7, 10) = Slice(Keccak256(kSchema.name[2].w), 1, 4)
        /\ kKey.key[11] = 0 /\ kKey.key[12] = 0
        /\ ~IsParam(third) => Slice(kKey.key, 13, 32) = Slice(Keccak256(third.w), 1, 20)
        /\ (IsParam(third) /\ third.t.k = "address")
             => /\ Slice(kKey.key, 13, 32) = HexToBytes(kParam)
                /\ Slice(kKey.key, 1, 12) = MappingWithGroupingPrefix

C6_Witness ==
    /\ kpc = "derived"
    /\ kSchema = SchemaOf(<<W("AddressPermissions"), W("Permissions"), P(TAddress)>>,
                          "MappingWithGrouping")
    /\ kParam = TableAddress
    /\ kKey.key = MappingWithGroupingPrefix \o HexToBytes(TableAddress)

\* C7: the length of a fixed-width encoding is the type's alone: 4 bytes for
\* uint32 (left-padded), 20 for address, 4 for bytes4 (right-padded), for a
\* tuple of fixed-width members the widths added up in declared order;
\* (bytes4,uint128) of (0xcafecafe, 5) is 0xcafecafe then 5 in 16 bytes.
C7_FixedWidth ==
    cpc = "encoded" =>
        /\ IsFixed(cType) => Len(cBytes) = Width(cType)
        /\ cType = TUint(32)
             => (Len(cBytes) = 4 /\ BytesToUint(cBytes) = cValue)
        /\ cType.k = "uint"
             => (Len(cBytes) * 8 = cType.n /\ BytesToUint(cBytes) = cValue)
        /\ cType = TAddress => Len(cBytes) = 20
        /\ cType = TBytesN(4)
             => /\ Len(cBytes) = 4
                /\ Slice(cBytes, 1, Len(cValue)) = cValue
                /\ AllZero(Slice(cBytes, Len(cValue) + 1, 4))
        /\ (cType.k = "tuple" /\ IsFixed(cType) /\ Len(cType.m) = 2)
             => /\ Len(cBytes) = Width(cType.m[1]) + Width(cType.m[2])
                /\ Slice(cBytes, 1, Width(cType.m[1])) = EncodeValue(cType.m[1], cValue[1])
                /\ Slice(cBytes, Width(cType.m[1]) + 1, Len(cBytes))
                      = EncodeValue(cType.m[2], cValue[2])
        /\ (cType = TTuple(<<TBytesN(4), TUint(128)>>)
            /\ cValue = <<<<202, 254, 202, 254>>, 5>>)
             => cBytes = <<202, 254, 202, 254>> \o Zeros(15) \o <<5>>

C7_Witness ==
    /\ cpc = "encoded"
    /\ cType = TTuple(<<TBytesN(4), TUint(128)>>)
    /\ cValue = <<<<202, 254, 202, 254>>, 5>>
    /\ Len(cBytes) = 20
    /\ cBytes[20] = 5

\* The element count an array input declares, and the words that follow it.
DeclaredCount == BytesToUint(Slice(cBytes, 1, 32))
WordsAfterCount == (Len(cBytes) - 32) \div 32

\* C8: decodeValue reports MalformedValue and returns no value when the input
\* of a fixed-width type has another length than the type's width (no bytes
\* for a bool, say), and when the count of a T[] input exceeds the elements
\* that fit in the bytes after it.
C8_MalformedValue ==
    Decoded =>
        /\ (IsFixed(cType) /\ Len(cBytes) # Width(cType)) => Refused(cOut)
        /\ (cType = TBool /\ cBytes = <<>>) => Refused(cOut)
        /\ (cType.k = "array" /\ Len(cBytes) >= 32 /\ DeclaredCount > WordsAfterCount)
             => Refused(cOut)

C8_Witness ==
    /\ cpc = "decodedTampered"
    /\ cType = TArray(TUint(8))
    /\ Len(cBytes) = 96
    /\ DeclaredCount = 3
    /\ WordsAfterCount = 2
    /\ Refused(cOut)

\* The steps of the run so far that come before position i.
Before(i, step) == \E j \in 1..(i - 1) : trace[j] = step
StepAt(step) == CHOOSE i \in DOMAIN trace : trace[i] = step

\* C9: a run of handleNameUpdate prepares the metadata, uploads it, encodes,
\* and only then submits setData, always under the LSP3Profile Singleton key;
\* a run whose upload or encoding threw submits nothing.
C9_StepOrder ==
    /\ Len(submitted) = Count(trace, "submit")
    /\ Len(submitted) <= 1
    /\ \A i \in DOMAIN trace :
         trace[i] = "submit" =>
            /\ Before(i, "prepare") /\ Before(i, "uploadCall")
            /\ Before(i, "uploaded") /\ Before(i, "encoded")
            /\ StepAt("prepare") < StepAt("uploadCall")
            /\ StepAt("uploadCall") < StepAt("uploaded")
            /\ StepAt("uploaded") < StepAt("encoded")
    /\ \A i \in DOMAIN submitted :
         /\ submitted[i].functionName = "setData"
         /\ submitted[i].key = Keccak256("LSP3Profile")
         /\ submitted[i].value.json = runName
    /\ ("uploadThrew" \in Range(trace) \/ "encodeThrew" \in Range(trace))
         => (submitted = <<>> /\ "submit" \notin Range(trace))

C9_Witness ==
    /\ pc = "awaitWrite"
    /\ trace = <<"prepare", "uploadCall", "uploaded", "encoded", "submit">>
    /\ Len(submitted) = 1
    /\ submitted[1].key = LSP3ProfileKey

\* C10: a run that passed the guard and has ended has shown exactly one of
\* "Name updated successfully!" and "Failed to update name".
C10_ExactlyOneOutcome ==
    (pc = "done" /\ "prepare" \in Range(trace))
        => Count(toasts, ToastSuccess) + Count(toasts, ToastFailed) = 1

\* C11: once handleNameUpdate has set isUpdating, it is set back to false in
\* the end, whichever way the run goes, given that the awaited upload and
\* wallet calls settle; it is true only while the run is at one of its awaits;
\* a call the guard rejects leaves it as it was; and it is false as soon as
\* the run has ended, the background receipt wait settled or not.
C11_IsUpdatingReset ==
    /\ isUpdating ~> ~isUpdating
    /\ [](isUpdating <=> pc \in {"awaitUpload", "awaitWrite"})
    /\ [][trace' = <<"guardReturn">> => isUpdating' = isUpdating]_vars
    /\ [][(isUpdating /\ ~isUpdating') => (pc' = "done" /\ bgPending' >= bgPending)]_vars

C11_Witness ==
    /\ pc = "done"
    /\ ~isUpdating
    /\ trace[Len(trace)] = "cleared"
    /\ toasts = <<ToastUpdating, ToastSuccess>>
    /\ bgPending = MaxBackground

\* A step of handleNameUpdate, as against a keystroke, a wallet change or a
\* background wait settling.
HandlerStep == trace' # trace \/ pc' # pc

Has(tr, step) == \E i \in DOMAIN tr : tr[i] = step

Threw(tr) ==
    \E i \in DOMAIN tr :
        tr[i] \in {"uploadThrew", "encodeThrew", "writeThrew", "publicClientThrew",
                   "waitCallThrew", "catch"}

\* C12: handleNameUpdate changes newName only by clearing it, and only in a
\* run whose upload, encoding and setData submission all went through; a run
\* that threw and a call the guard rejected leave newName as it was.
C12_NameClearedOnSuccess ==
    [][HandlerStep =>
        /\ newName' # newName
             => /\ newName' = <<>>
                /\ Has(trace', "uploaded")
                /\ Has(trace', "encoded")
                /\ Has(trace', "submit")
                /\ Has(trace', "written")
                /\ ~Threw(trace')
                /\ Len(submitted') = 1
        /\ (Threw(trace') \/ trace' = <<"guardReturn">>) => newName' = newName
        /\ (pc' = "done" /\ ~Threw(trace') /\ trace' # <<"guardReturn">>) => newName' = <<>>
    ]_vars

C12_Witness ==
    /\ pc = "done"
    /\ trace = <<"prepare", "uploadCall", "uploaded", "encoded", "submit", "written",
                 "receiptWaitStarted", "cleared">>
    /\ runName = <<"a">>
    /\ newName = <<>>
    /\ Len(submitted) = 1

====
